---- MODULE Spec2Model ----
(***************************************************************************)
(* A model of regparser/tree/struct.py: the mutable Node, the label-driven *)
(* tree reconstruction (merge_duplicates, treeify), the traversals (walk,  *)
(* find, join_text), the JSON encoder / decode hook and FrozenNode.        *)
(*                                                                         *)
(* Python objects live in a heap: a sequence of object records, an object's*)
(* identity being its index.  A children list is a sequence of identities. *)
(* Every Node owns its children list (Node.__init__ copies the list it is  *)
(* given), so a list is stored with its owner.  Python's None is the empty *)
(* sequence and a present value v is <<v>>.  An exception is the name of   *)
(* its class in the field exc of a result, "" when nothing was raised.     *)
(* Strings hold no quote and no backslash, so repr() of one is the string  *)
(* between quotes.                                                         *)
(***************************************************************************)
EXTENDS Integers, Sequences, FiniteSets, TLC

\* heap: the objects; trees: the roots of the hand-built trees, in the order
\* they were built; versions: the FrozenNode trees made so far (all_versions
\* of build_from.py); call: the last call, with the heap it found; ret: what
\* it returned or raised.
VARIABLES heap, trees, versions, call, ret

vars == <<heap, trees, versions, call, ret>>

None == <<>>

Some(v) == <<v>>

\* The elements of a sequence.
Range(s) == { s[i] : i \in 1..Len(s) }

\* Node.REGTEXT and Node.INTERP, two of the node_type constants.
REGTEXT == "regtext"

INTERP == "interp"

\* Node.INTERP_MARK
INTERP_MARK == "Interp"

(***************************************************************************)
(* Bounds of the model.                                                    *)
(***************************************************************************)
\* Nodes in the heap before treeify is called.
TreeifyMaxNodes == 3

\* Segments of a label given to treeify.
TreeifyMaxLabelLen == 2

\* Nodes in the heap before merge_duplicates is called.
MergeMaxNodes == 4

\* Nodes of the two trees that are frozen and compared, together.
FrozenMaxNodes == 4

\* Nodes of the tree that is walked and searched.
FindMaxNodes == 4

\* Nodes of the tree that is encoded and decoded.
EncodeMaxNodes == 3

(***************************************************************************)
(* Node                                                                    *)
(***************************************************************************)
\* Node.__init__: the new object is appended to the heap.  title is None or
\* Some(string); the label loses its empty segments and an empty title
\* becomes None.
NodeInit(h, text, children, label, title, node_type, source_xml) ==
    Append(h, [cls |-> "Node",
               text |-> text,
               children |-> children,
               label |-> SelectSeq(label, LAMBDA l : l # ""),
               title |-> IF title = None \/ title = Some("") THEN None ELSE title,
               node_type |-> node_type,
               source_xml |-> source_xml])

RECURSIVE JoinWith(_, _)
\* sep.join(segs)
JoinWith(sep, segs) ==
    IF segs = <<>> THEN ""
    ELSE IF Len(segs) = 1 THEN segs[1]
    ELSE segs[1] \o sep \o JoinWith(sep, Tail(segs))

\* Node.label_id, a method.
Node_label_id(h, n) == JoinWith("-", h[n].label)

\* FrozenNode.label_id, a property (memoized in _label_id; the label never
\* changes, so the memo is the value).
FrozenNode_label_id(h, n) == JoinWith("-", h[n].label)

(***************************************************************************)
(* Hand-built trees: a forest is a sequence of trees, a tree the arguments *)
(* of one Node(...) call and the forest of its children.                   *)
(***************************************************************************)
RECURSIVE ForestsOfSize(_, _)
ForestsOfSize(P, n) ==
    IF n = 0 THEN {<<>>}
    ELSE UNION { { <<[args |-> p, kids |-> k]>> \o rest :
                     p \in P, k \in ForestsOfSize(P, s - 1),
                     rest \in ForestsOfSize(P, n - s) } : s \in 1..n }

ForestsUpTo(P, n) == UNION { ForestsOfSize(P, k) : k \in 0..n }

TreesUpTo(P, n) == UNION { ForestsOfSize(P, k) : k \in 1..n }

RECURSIVE LoadForest(_, _)
\* Node(text, [Node(...), ...], label, title, node_type, source_xml) for each
\* tree of the forest: the children are constructed before their parent.
LoadForest(h, f) ==
    IF f = <<>> THEN [heap |-> h, ids |-> <<>>]
    ELSE LET a == Head(f).args
             kids == LoadForest(h, Head(f).kids)
             h1 == NodeInit(kids.heap, a.text, kids.ids, a.label, a.title,
                            a.node_type, a.source_xml)
             rest == LoadForest(h1, Tail(f))
         IN [heap |-> rest.heap, ids |-> <<Len(h1)>> \o rest.ids]

\* Sequences of distinct elements of S.
RECURSIVE DistinctSeqs(_)
DistinctSeqs(S) ==
    {<<>>} \cup UNION { { <<x>> \o s : s \in DistinctSeqs(S \ {x}) } : x \in S }

(***************************************************************************)
(* merge_duplicates and treeify                                            *)
(***************************************************************************)
RECURSIVE ScanPairs(_, _, _, _, _)
\* The two loops of merge_duplicates: found_pair after the scan from
\* (lidx, ridx) on, indices from 1.
ScanPairs(h, nodes, lidx, ridx, found_pair) ==
    IF lidx > Len(nodes) THEN found_pair
    ELSE IF ridx > Len(nodes) THEN ScanPairs(h, nodes, lidx + 1, lidx + 2, found_pair)
    ELSE ScanPairs(h, nodes, lidx, ridx + 1,
                   IF h[nodes[lidx]].label = h[nodes[ridx]].label
                   THEN Some(<<lidx, ridx>>) ELSE found_pair)

\* nodes[:ridx] + nodes[ridx + 1:], ridx from 1.
DropAt(nodes, ridx) ==
    SubSeq(nodes, 1, ridx - 1) \o SubSeq(nodes, ridx + 1, Len(nodes))

\* As ExtendChildren, the children of rhs put first.
ExtendChildrenFront(h, lhs, rhs) ==
    [h EXCEPT ![lhs].children = h[rhs].children \o @]

\* lhs.children.extend(rhs.children)
ExtendChildren(h, lhs, rhs) ==
    [h EXCEPT ![lhs].children = @ \o h[rhs].children]

RECURSIVE merge_duplicates(_, _)
merge_duplicates(h, nodes) ==
    LET found_pair == ScanPairs(h, nodes, 1, 2, None)
    IN IF found_pair # None
       THEN LET lidx == found_pair[1][1]
                ridx == found_pair[1][2]
            IN merge_duplicates(ExtendChildren(h, nodes[lidx], nodes[ridx]),
                                DropAt(nodes, ridx))
       ELSE [heap |-> h, ret |-> nodes]

RECURSIVE WithMin(_, _, _, _, _)
\* The first loop of treeify: with_min after the nodes from index i on.
WithMin(h, nodes, i, min_len, with_min) ==
    IF i > Len(nodes) THEN with_min
    ELSE LET node == nodes[i]
         IN IF Len(h[node].label) = min_len
            THEN WithMin(h, nodes, i + 1, min_len, Append(with_min, node))
            ELSE IF Len(h[node].label) < min_len
            THEN WithMin(h, nodes, i + 1, Len(h[node].label), <<node>>)
            ELSE WithMin(h, nodes, i + 1, min_len, with_min)

\* s[:k] for k >= 0
Prefix(s, k) == SubSeq(s, 1, IF k < Len(s) THEN k ELSE Len(s))

\* The is_child lambda treeify builds for a root whose label is not empty.
is_child(h, root, n) ==
    LET rl == h[root].label
        nl == h[n].label
    IN IF rl[Len(rl)] = INTERP_MARK
       THEN Prefix(nl, Len(rl) - 1) = Prefix(rl, Len(rl) - 1)
       ELSE Prefix(nl, Len(rl)) = rl

\* children = [n for n in nodes if n.label != root.label and is_child(n)]
ChildrenOf(h, nodes, root) ==
    SelectSeq(nodes, LAMBDA n : h[n].label # h[root].label /\ is_child(h, root, n))

RECURSIVE treeify(_, _)
RECURSIVE TreeifyRoots(_, _, _, _, _)
\* The second loop of treeify, from with_min[i] on.  root.label[-1] raises
\* IndexError when the label is empty; what was assigned before stays.
TreeifyRoots(h, nodes, with_min, i, roots) ==
    IF i > Len(with_min) THEN [heap |-> h, ret |-> roots, exc |-> ""]
    ELSE LET root == with_min[i]
         IN IF h[root].label = <<>>
            THEN [heap |-> h, ret |-> <<>>, exc |-> "IndexError"]
            ELSE LET sub == treeify(h, ChildrenOf(h, nodes, root))
                 IN IF sub.exc # "" THEN sub
                    ELSE TreeifyRoots(
                           [sub.heap EXCEPT ![root].children = @ \o sub.ret],
                           nodes, with_min, i + 1, Append(roots, root))

treeify(h, nodes) ==
    IF nodes = <<>> THEN [heap |-> h, ret |-> nodes, exc |-> ""]
    ELSE LET with_min == WithMin(h, nodes, 1, Len(h[nodes[1]].label), <<>>)
             merged == merge_duplicates(h, with_min)
         IN TreeifyRoots(merged.heap, nodes, merged.ret, 1, <<>>)

(***************************************************************************)
(* walk, find, join_text.  The function handed to walk is a closure: its   *)
(* name and what it captured.  bits is the list join_text's lambda appends *)
(* to.                                                                     *)
(***************************************************************************)
\* node.label_id as the attribute lookup finds it: a bound method of a Node,
\* the property's value (a string) of a FrozenNode.
LabelIdAttr(h, node) ==
    IF h[node].cls = "Node"
    THEN [callable |-> TRUE, value |-> Node_label_id(h, node)]
    ELSE [callable |-> FALSE, value |-> FrozenNode_label_id(h, node)]

\* attr(): calling a string raises TypeError.
CallAttr(attr) ==
    IF attr.callable THEN [exc |-> "", val |-> attr.value]
    ELSE [exc |-> "TypeError", val |-> ""]

\* check(node) of find: the node when node.label_id() == label, else None.
check(h, label, node, bits) ==
    LET lid == CallAttr(LabelIdAttr(h, node))
    IN IF lid.exc # "" THEN [exc |-> lid.exc, val |-> None, bits |-> bits]
       ELSE [exc |-> "",
             val |-> IF lid.val = label THEN Some(node) ELSE None,
             bits |-> bits]

\* fn(node) for the closures walk is called with.
ApplyFn(h, fn, node, bits) ==
    CASE fn.name = "check" -> check(h, fn.label, node, bits)
      [] fn.name = "append_text" ->
           \* lambda n: bits.append(n.text); list.append returns None
           [exc |-> "", val |-> None, bits |-> Append(bits, h[node].text)]
      [] fn.name = "text" ->
           \* lambda n: n.text
           [exc |-> "", val |-> Some(h[node].text), bits |-> bits]
      [] OTHER ->
           \* lambda n: n
           [exc |-> "", val |-> Some(node), bits |-> bits]

RECURSIVE walk(_, _, _, _)
RECURSIVE WalkChildren(_, _, _, _, _, _)
\* The loop of walk over node.children, from kids[i] on.
WalkChildren(h, kids, i, fn, results, bits) ==
    IF i > Len(kids) THEN [exc |-> "", results |-> results, bits |-> bits]
    ELSE LET w == walk(h, kids[i], fn, bits)
         IN IF w.exc # "" THEN w
            ELSE WalkChildren(h, kids, i + 1, fn, results \o w.results, w.bits)

walk(h, node, fn, bits) ==
    LET result == ApplyFn(h, fn, node, bits)
    IN IF result.exc # ""
       THEN [exc |-> result.exc, results |-> <<>>, bits |-> result.bits]
       ELSE WalkChildren(h, h[node].children, 1, fn,
                         IF result.val # None THEN <<result.val[1]>> ELSE <<>>,
                         result.bits)

\* As FirstOrNone, the last match taken.
LastOrNone(response) ==
    IF response # <<>> THEN Some(response[Len(response)]) ELSE None

\* if response: return response[0]; otherwise the function ends, returning None
FirstOrNone(response) ==
    IF response # <<>> THEN Some(response[1]) ELSE None

find(h, root, label) ==
    LET response == walk(h, root, [name |-> "check", label |-> label], <<>>)
    IN IF response.exc # "" THEN [exc |-> response.exc, val |-> None]
       ELSE [exc |-> "", val |-> FirstOrNone(response.results)]

join_text(h, node) ==
    LET w == walk(h, node, [name |-> "append_text"], <<>>)
    IN IF w.exc # "" THEN [exc |-> w.exc, val |-> ""]
       ELSE [exc |-> "", val |-> JoinWith("", w.bits)]

(***************************************************************************)
(* FrozenNode                                                              *)
(***************************************************************************)
\* FrozenNode.__init__: text or '', tuple(children), tuple(label),
\* title or '', tagged_text or ''.  title is a string here, never None.
FrozenNodeInit(h, text, children, label, title, node_type, tagged_text) ==
    Append(h, [cls |-> "FrozenNode",
               text |-> text,
               children |-> children,
               label |-> label,
               title |-> title,
               node_type |-> node_type,
               tagged_text |-> tagged_text])

\* node.title or ''
TitleOrEmpty(title) == IF title = None THEN "" ELSE title[1]

RECURSIVE from_node(_, _)
RECURSIVE MapFromNode(_, _, _, _)
\* map(FrozenNode.from_node, node.children), from kids[i] on.
MapFromNode(h, kids, i, done) ==
    IF i > Len(kids) THEN [heap |-> h, ids |-> done]
    ELSE LET c == from_node(h, kids[i])
         IN MapFromNode(c.heap, kids, i + 1, Append(done, c.id))

\* FrozenNode.from_node.  A Node of the model carries no tagged_text
\* attribute, so getattr(node, 'tagged_text', '') is ''.
from_node(h, node) ==
    LET children == MapFromNode(h, h[node].children, 1, <<>>)
        h1 == FrozenNodeInit(children.heap, h[node].text, children.ids,
                             h[node].label, TitleOrEmpty(h[node].title),
                             h[node].node_type, "")
    IN [heap |-> h1, id |-> Len(h1)]

\* repr of a text or title of a FrozenNode: the empty one is the str '',
\* any other the unicode string Node.__init__ made.
ReprText(s) == IF s = "" THEN "''" ELSE "u'" \o s \o "'"

\* repr of a label segment, a str.
ReprSeg(s) == "'" \o s \o "'"

\* repr of a tuple whose items have the reprs items.
ReprTuple(items) ==
    IF items = <<>> THEN "()"
    ELSE IF Len(items) = 1 THEN "(" \o items[1] \o ",)"
    ELSE "(" \o JoinWith(", ", items) \o ")"

RECURSIVE FrozenNode_repr_typed(_, _)
\* As FrozenNode_repr, with node_type in the representation.
FrozenNode_repr_typed(h, f) ==
    "FrozenNode(text=" \o ReprText(h[f].text)
      \o ", children="
      \o ReprTuple([i \in 1..Len(h[f].children) |->
                      FrozenNode_repr_typed(h, h[f].children[i])])
      \o ", label="
      \o ReprTuple([i \in 1..Len(h[f].label) |-> ReprSeg(h[f].label[i])])
      \o ", title=" \o ReprText(h[f].title)
      \o ", node_type=" \o ReprText(h[f].node_type) \o ")"

RECURSIVE FrozenNode_repr_untitled(_, _)
\* As FrozenNode_repr, without the title.
FrozenNode_repr_untitled(h, f) ==
    "FrozenNode(text=" \o ReprText(h[f].text)
      \o ", children="
      \o ReprTuple([i \in 1..Len(h[f].children) |->
                      FrozenNode_repr_untitled(h, h[f].children[i])])
      \o ", label="
      \o ReprTuple([i \in 1..Len(h[f].label) |-> ReprSeg(h[f].label[i])])
      \o ")"

RECURSIVE FrozenNode_repr(_, _)
\* FrozenNode.__repr__ (memoized in _repr_value; no field changes after
\* __init__, so the memo is the value).
FrozenNode_repr(h, f) ==
    "FrozenNode(text=" \o ReprText(h[f].text)
      \o ", children="
      \o ReprTuple([i \in 1..Len(h[f].children) |-> FrozenNode_repr(h, h[f].children[i])])
      \o ", label="
      \o ReprTuple([i \in 1..Len(h[f].label) |-> ReprSeg(h[f].label[i])])
      \o ", title=" \o ReprText(h[f].title) \o ")"

\* cmp(a, b) of two strings: 0 when equal, otherwise -1 or 1 by their order,
\* of which only "not 0" is kept.
cmp(a, b) == IF a = b THEN 0 ELSE 1

\* FrozenNode.__cmp__: False, which is 0, when the classes differ.
FrozenNode_cmp(h, self, other) ==
    IF h[other].cls = h[self].cls
    THEN cmp(FrozenNode_repr(h, self), FrozenNode_repr(h, other))
    ELSE 0

\* FrozenNode.__hash__: hash(repr(self)), a function of the representation
\* alone; the string hash is taken to be free of collisions.
FrozenNode_hash(h, self) == [hash_of |-> FrozenNode_repr(h, self)]

(***************************************************************************)
(* NodeEncoder and node_decode_hook.  A JSON object is a function from its *)
(* keys, a JSON array a sequence, null is None.                            *)
(***************************************************************************)
\* The keys of obj.__dict__ (cls is the model's own tag).
DictKeys(h, obj) == DOMAIN h[obj] \ {"cls"}

\* NodeEncoder.default: the fields of a Node without title when it is None
\* and without tagged_text, source_xml, child_labels; JSONEncoder.default
\* raises TypeError for anything else.
NodeEncoder_default(h, obj) ==
    IF h[obj].cls = "Node"
    THEN LET fields == DictKeys(h, obj)
             no_title == IF h[obj].title = None THEN fields \ {"title"} ELSE fields
             kept == no_title \ {"tagged_text", "source_xml", "child_labels"}
         IN [exc |-> "", val |-> [k \in kept |-> h[obj][k]]]
    ELSE [exc |-> "TypeError", val |-> None]

RECURSIVE encode(_, _)
\* NodeEncoder().encode(obj): default(obj), then the same for every Node in
\* its children array; a present title is written as its string.
encode(h, obj) ==
    LET d == NodeEncoder_default(h, obj)
    IN IF d.exc # "" THEN d
       ELSE LET kids == [i \in 1..Len(d.val["children"]) |->
                           encode(h, d.val["children"][i])]
            IN IF \E i \in 1..Len(kids) : kids[i].exc # ""
               THEN [exc |-> "TypeError", val |-> None]
               ELSE [exc |-> "",
                     val |-> [k \in DOMAIN d.val |->
                                IF k = "children"
                                THEN [i \in 1..Len(kids) |-> kids[i].val]
                                ELSE IF k = "title" THEN d.val[k][1]
                                ELSE d.val[k]]]

\* As GetTitle, the title never read.
GetTitleDropped(d) == None

\* d.get('title', None)
GetTitle(d) == IF "title" \in DOMAIN d THEN Some(d["title"]) ELSE None

\* node_decode_hook: a Node when d has the four keys, d itself otherwise.
node_decode_hook(h, d) ==
    IF {"text", "children", "label", "node_type"} \ DOMAIN d = {}
    THEN LET h1 == NodeInit(h, d["text"], d["children"], d["label"],
                            GetTitle(d), d["node_type"], None)
         IN [heap |-> h1, val |-> Len(h1), is_node |-> TRUE]
    ELSE [heap |-> h, val |-> d, is_node |-> FALSE]

RECURSIVE decode(_, _)
RECURSIVE DecodeArray(_, _, _, _)
\* The objects of a JSON array, decoded from arr[i] on.
DecodeArray(h, arr, i, done) ==
    IF i > Len(arr) THEN [heap |-> h, val |-> done]
    ELSE LET c == decode(h, arr[i])
         IN DecodeArray(c.heap, arr, i + 1, Append(done, c.val))

\* json.loads(text, object_hook=node_decode_hook) on the object j: the hook
\* is applied to the objects inside an object before it is applied to the
\* object.
decode(h, j) ==
    LET kids == IF "children" \in DOMAIN j
                THEN DecodeArray(h, j["children"], 1, <<>>)
                ELSE [heap |-> h, val |-> <<>>]
        d == [k \in DOMAIN j |-> IF k = "children" THEN kids.val ELSE j[k]]
    IN node_decode_hook(kids.heap, d)

(***************************************************************************)
(* The state machine: hand-built trees, then calls.                        *)
(***************************************************************************)
NoCall == [op |-> "none", args |-> <<>>, before |-> <<>>]

NoRet == [exc |-> "", val |-> None]

\* The state after the trees of forest f were built.
Built(f) ==
    LET b == LoadForest(<<>>, f)
    IN /\ heap = b.heap
       /\ trees = b.ids
       /\ versions = <<>>
       /\ call = NoCall
       /\ ret = NoRet

\* Node(text, children, label): title, node_type, source_xml at their defaults.
PlainArgs(text, label) ==
    [text |-> text, label |-> label, title |-> None, node_type |-> REGTEXT,
     source_xml |-> None]

RECURSIVE SeqsUpTo(_, _)
\* The sequences over S of length at most n.
SeqsUpTo(S, n) ==
    IF n = 0 THEN {<<>>}
    ELSE {<<>>} \cup { <<x>> \o s : x \in S, s \in SeqsUpTo(S, n - 1) }

(***************************************************************************)
(* treeify                                                                 *)
(***************************************************************************)
TreeifySegs == {"a", "b", INTERP_MARK}

TreeifyLabels == SeqsUpTo(TreeifySegs, TreeifyMaxLabelLen)

TreeifyArgs == { PlainArgs("t", l) : l \in TreeifyLabels }

InitTreeify == \E f \in ForestsUpTo(TreeifyArgs, TreeifyMaxNodes) : Built(f)

\* flat = walk(root, lambda n: n)
CallFlatten(root) ==
    /\ call.op = "none"
    /\ LET w == walk(heap, root, [name |-> "identity"], <<>>)
       IN /\ ret' = [exc |-> w.exc, val |-> w.results]
          /\ call' = [op |-> "walk", args |-> <<root>>, before |-> heap]
    /\ UNCHANGED <<heap, trees, versions>>

\* treeify(nodes), on any list of distinct nodes or on the list walk returned.
CallTreeify(nodes) ==
    /\ \/ call.op = "none"
       \/ call.op = "walk" /\ nodes = ret.val
    /\ LET r == treeify(heap, nodes)
       IN /\ heap' = r.heap
          /\ ret' = [exc |-> r.exc, val |-> r.ret]
          /\ call' = [op |-> "treeify", args |-> nodes, before |-> heap]
    /\ UNCHANGED <<trees, versions>>

NextTreeify ==
    \/ \E root \in 1..Len(heap) : CallFlatten(root)
    \/ \E nodes \in DistinctSeqs(1..Len(heap)) : CallTreeify(nodes)

SpecTreeify == InitTreeify /\ [][NextTreeify]_vars

(***************************************************************************)
(* merge_duplicates                                                        *)
(***************************************************************************)
MergeLabels == {<<"a">>, <<"b">>, <<"a", "b">>}

MergeArgs == { PlainArgs("t", l) : l \in MergeLabels }

InitMerge == \E f \in ForestsUpTo(MergeArgs, MergeMaxNodes) : Built(f)

\* merge_duplicates(nodes), on a list of distinct hand-built roots.
CallMergeDuplicates(nodes) ==
    /\ call.op = "none"
    /\ LET r == merge_duplicates(heap, nodes)
       IN /\ heap' = r.heap
          /\ ret' = [exc |-> "", val |-> r.ret]
          /\ call' = [op |-> "merge_duplicates", args |-> nodes, before |-> heap]
    /\ UNCHANGED <<trees, versions>>

NextMerge ==
    \E nodes \in DistinctSeqs({ trees[i] : i \in 1..Len(trees) }) :
        CallMergeDuplicates(nodes)

SpecMerge == InitMerge /\ [][NextMerge]_vars

(***************************************************************************)
(* FrozenNode.from_node, ==, hash: two hand-built trees, frozen one after  *)
(* the other as build_from.py freezes all_versions, then compared.         *)
(***************************************************************************)
\* Node(...) calls that differ from Node('', [], []) in at most one argument.
FrozenArgs ==
    { PlainArgs("", <<>>),
      PlainArgs("x", <<>>),
      PlainArgs("", <<"1">>),
      PlainArgs("", <<"1", "2">>),
      [PlainArgs("", <<>>) EXCEPT !.title = Some("T")],
      [PlainArgs("", <<>>) EXCEPT !.node_type = INTERP] }

\* The forests of one tree of n nodes.
TreesOfSize(P, n) == { f \in ForestsOfSize(P, n) : Len(f) = 1 }

InitFrozen ==
    \E n1 \in 1..(FrozenMaxNodes - 1) : \E n2 \in 1..(FrozenMaxNodes - n1) :
       \E t1 \in TreesOfSize(FrozenArgs, n1), t2 \in TreesOfSize(FrozenArgs, n2) :
          Built(t1 \o t2)

\* all_versions[doc] = FrozenNode.from_node(all_versions[doc]), for the next
\* tree not yet frozen.
CallFromNode ==
    /\ call.op \in {"none", "from_node"}
    /\ Len(versions) < Len(trees)
    /\ LET node == trees[Len(versions) + 1]
           r == from_node(heap, node)
       IN /\ heap' = r.heap
          /\ versions' = Append(versions, r.id)
          /\ ret' = [exc |-> "", val |-> r.id]
          /\ call' = [op |-> "from_node", args |-> <<node>>, before |-> heap]
    /\ UNCHANGED trees

\* versions[i] == versions[j] and hash(versions[i]) == hash(versions[j]),
\* as a dictionary lookup evaluates them.
CallCompare(i, j) ==
    /\ call.op = "from_node"
    /\ Len(versions) = Len(trees)
    /\ ret' = [exc |-> "",
               val |-> [eq |-> FrozenNode_cmp(heap, versions[i], versions[j]) = 0,
                        hash_eq |-> FrozenNode_hash(heap, versions[i])
                                      = FrozenNode_hash(heap, versions[j])]]
    /\ call' = [op |-> "compare", args |-> <<i, j>>, before |-> heap]
    /\ UNCHANGED <<heap, trees, versions>>

NextFrozen ==
    \/ CallFromNode
    \/ \E i, j \in 1..Len(versions) : CallCompare(i, j)

SpecFrozen == InitFrozen /\ [][NextFrozen]_vars

(***************************************************************************)
(* walk, find, join_text over one hand-built tree and its frozen copy.     *)
(***************************************************************************)
FindArgs ==
    { PlainArgs("1", <<"a">>), PlainArgs("2", <<"a", "b">>), PlainArgs("3", <<"a-b">>) }

FindTargets == {"a", "a-b", "zz"}

InitFind == \E t \in TreesUpTo(FindArgs, FindMaxNodes) : Len(t) = 1 /\ Built(t)

\* The trees a traversal can be started on: the hand-built one and its
\* frozen copy.
Traversable == Range(trees) \cup Range(versions)

\* Nothing but from_node was called so far.
NoTraversalYet == call.op \in {"none", "from_node"}

CallFind(root, label) ==
    /\ NoTraversalYet
    /\ ret' = find(heap, root, label)
    /\ call' = [op |-> "find", args |-> <<root, label>>, before |-> heap]
    /\ UNCHANGED <<heap, trees, versions>>

\* walk(root, lambda n: n.text)
CallWalk(root) ==
    /\ NoTraversalYet
    /\ LET w == walk(heap, root, [name |-> "text"], <<>>)
       IN ret' = [exc |-> w.exc, val |-> w.results]
    /\ call' = [op |-> "walk", args |-> <<root>>, before |-> heap]
    /\ UNCHANGED <<heap, trees, versions>>

CallJoinText(root) ==
    /\ NoTraversalYet
    /\ ret' = join_text(heap, root)
    /\ call' = [op |-> "join_text", args |-> <<root>>, before |-> heap]
    /\ UNCHANGED <<heap, trees, versions>>

NextFind ==
    \/ CallFromNode
    \/ \E root \in Traversable : \E label \in FindTargets : CallFind(root, label)
    \/ \E root \in Traversable : CallWalk(root)
    \/ \E root \in Traversable : CallJoinText(root)

SpecFind == InitFind /\ [][NextFind]_vars

(***************************************************************************)
(* NodeEncoder().encode(node), then json.loads with node_decode_hook.      *)
(***************************************************************************)
\* Node(...) calls: an empty label segment, an empty title, a title, another
\* node_type, a source_xml.
EncodeArgs ==
    { PlainArgs("x", <<"1", "2">>),
      PlainArgs("", <<"1", "">>),
      [PlainArgs("x", <<>>) EXCEPT !.title = Some("")],
      [PlainArgs("x", <<>>) EXCEPT !.title = Some("T")],
      [PlainArgs("", <<"1">>) EXCEPT !.node_type = INTERP],
      [PlainArgs("", <<>>) EXCEPT !.source_xml = Some("xml")] }

InitEncode == \E t \in TreesUpTo(EncodeArgs, EncodeMaxNodes) : Len(t) = 1 /\ Built(t)

CallEncode(node) ==
    /\ call.op = "none"
    /\ ret' = encode(heap, node)
    /\ call' = [op |-> "encode", args |-> <<node>>, before |-> heap]
    /\ UNCHANGED <<heap, trees, versions>>

\* json.loads(encoded, object_hook=node_decode_hook) on what encode returned.
CallDecode ==
    /\ call.op = "encode"
    /\ ret.exc = ""
    /\ LET r == decode(heap, ret.val)
       IN /\ heap' = r.heap
          /\ ret' = [exc |-> "", val |-> r.val]
    /\ call' = [op |-> "decode", args |-> call.args, before |-> heap]
    /\ UNCHANGED <<trees, versions>>

NextEncode ==
    \/ \E node \in Range(trees) : CallEncode(node)
    \/ CallDecode

SpecEncode == InitEncode /\ [][NextEncode]_vars

(***************************************************************************)
(* What the properties below speak of.                                     *)
(***************************************************************************)
\* The nodes of the tree under root in pre-order, root first.
PreOrder(h, root) == walk(h, root, [name |-> "identity"], <<>>).results

RECURSIVE ConcatAll(_)
ConcatAll(ss) == IF ss = <<>> THEN <<>> ELSE Head(ss) \o ConcatAll(Tail(ss))

\* How often x occurs in s.
Count(s, x) == Cardinality({ i \in 1..Len(s) : s[i] = x })

\* Label a is label b extended by one segment.
ExtendsByOne(a, b) == Len(a) = Len(b) + 1 /\ SubSeq(a, 1, Len(b)) = b

\* The label ends in the sentinel segment.
EndsInMark(l) == l # <<>> /\ l[Len(l)] = INTERP_MARK

\* The first k segments of a and of b exist and are equal.
SameFirst(a, b, k) == Len(a) >= k /\ Len(b) >= k /\ SubSeq(a, 1, k) = SubSeq(b, 1, k)

\* treeify was called, on the nodes call.args in the heap call.before.
Treeified == call.op = "treeify"

\* No node given to treeify had children beforehand.
ChildlessInput == \A n \in Range(call.args) : call.before[n].children = <<>>

(***************************************************************************)
(* C1: the pre-order list of all nodes of a tree whose labels are pairwise *)
(* distinct and whose children each extend their parent's label by one     *)
(* segment, given to treeify, comes back as exactly one root, the tree     *)
(* under it equal to the original in text, label and children at every     *)
(* node.                                                                   *)
(***************************************************************************)
C1_Consistent(h, root) ==
    LET flat == PreOrder(h, root)
    IN /\ \A i, j \in 1..Len(flat) : i # j => h[flat[i]].label # h[flat[j]].label
       /\ \A n \in Range(flat) : \A c \in Range(h[n].children) :
             ExtendsByOne(h[c].label, h[n].label)

C1_RoundTrip ==
    Treeified =>
      \A root \in 1..Len(call.before) :
         (PreOrder(call.before, root) = call.args /\ C1_Consistent(call.before, root))
         => /\ ret.exc = ""
            /\ ret.val = <<root>>
            /\ \A n \in Range(call.args) :
                  /\ heap[n].text = call.before[n].text
                  /\ heap[n].label = call.before[n].label
                  /\ heap[n].children = call.before[n].children

(***************************************************************************)
(* C7: treeify never raises on a list of Nodes whose labels are sequences  *)
(* of non-empty segments, a label of no segments included, and             *)
(* treeify([]) is [].                                                      *)
(***************************************************************************)
C7_NeverRaises ==
    Treeified => /\ ret.exc = ""
                 /\ call.args = <<>> => ret.val = <<>>

(***************************************************************************)
(* C8: every candidate root r of treeify (a node of minimum label length,  *)
(* the first with its label) has as the nodes of its subtree exactly the   *)
(* input nodes n with another label whose first len(r.label)-1 segments    *)
(* are those of r.label, when r.label ends in 'Interp', and exactly the    *)
(* input nodes with another label that have r.label as a prefix otherwise. *)
(***************************************************************************)
C8_MinLen ==
    CHOOSE k \in 0..TreeifyMaxLabelLen :
       /\ \E n \in Range(call.args) : Len(call.before[n].label) = k
       /\ \A n \in Range(call.args) : Len(call.before[n].label) >= k

C8_Candidates ==
    { call.args[i] : i \in { i \in 1..Len(call.args) :
         /\ Len(call.before[call.args[i]].label) = C8_MinLen
         /\ \A j \in 1..(i - 1) :
               call.before[call.args[j]].label # call.before[call.args[i]].label } }

C8_Expected(r) ==
    LET rl == call.before[r].label
    IN { n \in Range(call.args) :
           /\ call.before[n].label # rl
           /\ IF EndsInMark(rl)
              THEN SameFirst(call.before[n].label, rl, Len(rl) - 1)
              ELSE SameFirst(call.before[n].label, rl, Len(rl)) }

C8_Adoption ==
    (Treeified /\ call.args # <<>> /\ ChildlessInput) =>
       \A r \in C8_Candidates :
          Range(PreOrder(heap, r)) \ {r} = C8_Expected(r)

(***************************************************************************)
(* C10: what treeify returns for distinct nodes without children is a      *)
(* forest: every input node occurs at most once among the roots and their  *)
(* descendants, and no children list holds a node twice.                   *)
(***************************************************************************)
C10_Forest ==
    (Treeified /\ ChildlessInput /\ ret.exc = "") =>
       LET all == ConcatAll([i \in 1..Len(ret.val) |-> PreOrder(heap, ret.val[i])])
       IN /\ \A n \in Range(call.args) : Count(all, n) <= 1
          /\ \A n \in 1..Len(heap) : \A c \in Range(heap[n].children) :
                Count(heap[n].children, c) = 1

(***************************************************************************)
(* C2: merge_duplicates returns no two elements with equal labels; when    *)
(* exactly two elements of the list share a label, the result holds one    *)
(* element with that label, the earlier of the two, and its children are   *)
(* its own original children followed by the later element's.              *)
(***************************************************************************)
Merged == call.op = "merge_duplicates"

\* All labels of the list have the same length.
C2_SameLength ==
    \A m, n \in Range(call.args) :
       Len(call.before[m].label) = Len(call.before[n].label)

\* Positions i < j of the list are the only two with their label.
C2_OnlyPair(i, j) ==
    /\ i < j
    /\ call.before[call.args[i]].label = call.before[call.args[j]].label
    /\ \A k \in 1..Len(call.args) :
          call.before[call.args[k]].label = call.before[call.args[i]].label
          => k \in {i, j}

C2_Merge ==
    (Merged /\ C2_SameLength) =>
       /\ \A i, j \in 1..Len(ret.val) :
             i # j => heap[ret.val[i]].label # heap[ret.val[j]].label
       /\ \A i, j \in 1..Len(call.args) :
             C2_OnlyPair(i, j) =>
                /\ { k \in 1..Len(ret.val) :
                       heap[ret.val[k]].label = call.before[call.args[i]].label }
                   = { k \in 1..Len(ret.val) : ret.val[k] = call.args[i] }
                /\ Count(ret.val, call.args[i]) = 1
                /\ heap[call.args[i]].children
                   = call.before[call.args[i]].children
                       \o call.before[call.args[j]].children

\* Two duplicates that both had children, and not the same, were merged.
C2_Witness ==
    /\ Merged
    /\ \E i, j \in 1..Len(call.args) :
          /\ C2_OnlyPair(i, j)
          /\ call.before[call.args[i]].children # <<>>
          /\ call.before[call.args[j]].children # <<>>
          /\ call.before[call.args[i]].children # call.before[call.args[j]].children
    /\ Len(ret.val) < Len(call.args)

(***************************************************************************)
(* C3: FrozenNode trees made by from_node from two mutable trees that      *)
(* agree in every field at every node are equal and have the same hash;    *)
(* when the mutable trees differ in a text, a child, a label or a title    *)
(* somewhere, the FrozenNode trees are not equal and their hashes differ.  *)
(***************************************************************************)
RECURSIVE SameListed(_, _, _)
\* The trees under a and b agree in text, label, title and children.
SameListed(h, a, b) ==
    /\ h[a].text = h[b].text
    /\ h[a].label = h[b].label
    /\ h[a].title = h[b].title
    /\ Len(h[a].children) = Len(h[b].children)
    /\ \A i \in 1..Len(h[a].children) :
          SameListed(h, h[a].children[i], h[b].children[i])

RECURSIVE SameTypes(_, _, _)
\* The trees under a and b, of the same shape, agree in node_type.
SameTypes(h, a, b) ==
    /\ h[a].node_type = h[b].node_type
    /\ \A i \in 1..Len(h[a].children) :
          SameTypes(h, h[a].children[i], h[b].children[i])

Compared == call.op = "compare"

\* The mutable trees whose frozen copies were compared.
Lhs == trees[call.args[1]]

Rhs == trees[call.args[2]]

C3_FrozenEquality ==
    Compared =>
       /\ (SameListed(heap, Lhs, Rhs) /\ SameTypes(heap, Lhs, Rhs))
            => (ret.val.eq /\ ret.val.hash_eq)
       /\ ~SameListed(heap, Lhs, Rhs) => (~ret.val.eq /\ ~ret.val.hash_eq)

\* Two trees built apart, each with a child, equal in every field, were
\* frozen and compared.
C3_Witness ==
    /\ Compared
    /\ Lhs # Rhs
    /\ heap[Lhs].children # <<>>
    /\ SameListed(heap, Lhs, Rhs) /\ SameTypes(heap, Lhs, Rhs)
    /\ ret.val.eq

(***************************************************************************)
(* C4, as claimed: two FrozenNode trees that agree in text, children,      *)
(* label and title everywhere and differ in the node_type of some node are *)
(* not equal.                                                              *)
(***************************************************************************)
C4_NodeTypeCounts ==
    (Compared /\ SameListed(heap, Lhs, Rhs) /\ ~SameTypes(heap, Lhs, Rhs))
       => ~ret.val.eq

(***************************************************************************)
(* C4, amended: node_type is not part of the representation FrozenNode     *)
(* equality and hashing are defined on: two FrozenNode trees that agree in *)
(* text, children, label and title everywhere and differ in the node_type  *)
(* of some node are equal and have the same hash.                          *)
(***************************************************************************)
C4_NodeTypeIgnored ==
    (Compared /\ SameListed(heap, Lhs, Rhs) /\ ~SameTypes(heap, Lhs, Rhs))
       => (ret.val.eq /\ ret.val.hash_eq)

\* Two trees that differ in the node_type of a child only were frozen and
\* compared.
C4_Witness ==
    /\ Compared
    /\ SameListed(heap, Lhs, Rhs)
    /\ heap[Lhs].node_type = heap[Rhs].node_type
    /\ ~SameTypes(heap, Lhs, Rhs)

(***************************************************************************)
(* C5: walk, find and join_text applied to FrozenNode.from_node(t)         *)
(* complete without error and return what corresponds to their result on   *)
(* the mutable tree t: the same texts, the node at the same position.      *)
(***************************************************************************)
\* The position of x in s, 0 when it is not there.
IndexOf(s, x) ==
    IF x \in Range(s) THEN CHOOSE i \in 1..Len(s) : s[i] = x ELSE 0

\* A traversal was called on the frozen copy of the hand-built tree.
OnFrozen ==
    /\ call.op \in {"find", "walk", "join_text"}
    /\ call.args[1] \in Range(versions)

C5_SameOverFrozen ==
    OnFrozen =>
       /\ ret.exc = ""
       /\ call.op = "walk" =>
             ret.val = walk(heap, trees[1], [name |-> "text"], <<>>).results
       /\ call.op = "join_text" => ret.val = join_text(heap, trees[1]).val
       /\ call.op = "find" =>
             LET on_node == find(heap, trees[1], call.args[2]).val
             IN /\ (ret.val = None) = (on_node = None)
                /\ ret.val # None =>
                      IndexOf(PreOrder(heap, call.args[1]), ret.val[1])
                        = IndexOf(PreOrder(heap, trees[1]), on_node[1])

(***************************************************************************)
(* C6: find(root, target) on a Node tree raises nothing and returns the    *)
(* first node in pre-order (a node before its children, the children left  *)
(* to right, depth first) whose label_id is target, None when there is no  *)
(* such node.                                                              *)
(***************************************************************************)
RECURSIVE C6_PreOrder(_, _)
C6_PreOrder(h, n) ==
    <<n>> \o ConcatAll([i \in 1..Len(h[n].children) |-> C6_PreOrder(h, h[n].children[i])])

\* find was called on the hand-built tree.
FoundOnNode == call.op = "find" /\ call.args[1] \in Range(trees)

\* The positions in pre-order of the nodes with the label_id looked for.
C6_Matches ==
    LET order == C6_PreOrder(heap, call.args[1])
    IN { i \in 1..Len(order) : JoinWith("-", heap[order[i]].label) = call.args[2] }

C6_FindFirst ==
    FoundOnNode =>
       /\ ret.exc = ""
       /\ C6_Matches = {} => ret.val = None
       /\ C6_Matches # {} =>
             ret.val = Some(C6_PreOrder(heap, call.args[1])[
                              CHOOSE i \in C6_Matches : \A j \in C6_Matches : i <= j])

\* Several nodes carry the label looked for; the one found is a grandchild
\* of the root and a child of the root carries the label too.
C6_Witness ==
    /\ FoundOnNode
    /\ Cardinality(C6_Matches) >= 2
    /\ ret.val # None
    /\ ret.val[1] # call.args[1]
    /\ ret.val[1] \notin Range(heap[call.args[1]].children)
    /\ \E c \in Range(heap[call.args[1]].children) :
          JoinWith("-", heap[c].label) = call.args[2]

(***************************************************************************)
(* C9: decoding what NodeEncoder encoded a Node to gives a Node equal to   *)
(* it in text, children, label, node_type and title; the encoded object of *)
(* a Node without title has no 'title' key, and no encoded object has a    *)
(* 'source_xml' key.                                                       *)
(***************************************************************************)
RECURSIVE C9_Shape(_, _, _)
\* The JSON object j encodes the tree under n without a title key where
\* there is no title, and without a source_xml key.
C9_Shape(h, n, j) ==
    /\ h[n].title = None => "title" \notin DOMAIN j
    /\ "source_xml" \notin DOMAIN j
    /\ Len(j["children"]) = Len(h[n].children)
    /\ \A i \in 1..Len(h[n].children) : C9_Shape(h, h[n].children[i], j["children"][i])

====
